---- MODULE Spec2Model ----
(***************************************************************************)
(* Model of src/main.cpp (HelloTriangleApplication): physical device       *)
(* selection, queue family discovery, logical device creation and          *)
(* swapchain negotiation.                                                  *)
(*                                                                         *)
(* The driver is modelled by the answers it gives: a physical device is a  *)
(* record of what the vkGetPhysicalDevice... / vkEnumerate... queries      *)
(* return for it.                                                          *)
(***************************************************************************)
EXTENDS Integers, Sequences, FiniteSets, TLC

(***************************************************************************)
(* Bounds of the model.                                                    *)
(***************************************************************************)
\* uint32_t is modelled by an unsigned word of UintBits bits (TLC's integers
\* are 32-bit signed, so 2^32 - 1 itself is not representable).
UintBits == 14
MaxFamilies == 3
MaxFormats == 3
MaxPresentModes == 3
MaxExtensions == 2
MaxImageCount == 3
MaxDevices == 2

(***************************************************************************)
(* Program constants.                                                      *)
(***************************************************************************)
WIDTH == 800
HEIGHT == 600

UINT_MAX == 2^UintBits - 1

\* static_cast<uint32_t>(int)
static_cast_uint32(x) == x % (UINT_MAX + 1)

deviceExtensions == <<"VK_KHR_swapchain">>
validationLayers == <<"VK_LAYER_KHRONOS_validation">>

\* std::optional<uint32_t>
nullopt == <<>>
Some(v) == <<v>>
has_value(o) == Len(o) > 0
value(o) == o[1]

Range(s) == {s[k] : k \in 1..Len(s)}
SeqsUpTo(S, n) == UNION {[1..k -> S] : k \in 0..n}

(***************************************************************************)
(* QueueFamilyIndices                                                      *)
(***************************************************************************)
EmptyIndices == [graphicsFamily |-> nullopt, presentFamily |-> nullopt]

isComplete(indices) ==
    has_value(indices.graphicsFamily) /\ has_value(indices.presentFamily)

(***************************************************************************)
(* findQueueFamilies: qf is the driver's queue family list of the device;  *)
(* qf[i+1].graphics is (queueFlags & VK_QUEUE_GRAPHICS_BIT) of family i,   *)
(* qf[i+1].present the answer of vkGetPhysicalDeviceSurfaceSupportKHR.     *)
(***************************************************************************)
RECURSIVE scanQueueFamilies(_, _, _)
scanQueueFamilies(qf, i, indices) ==
    IF i >= Len(qf) THEN indices
    ELSE LET withGraphics ==
                 IF qf[i + 1].graphics
                 THEN [indices EXCEPT !.graphicsFamily = Some(i)]
                 ELSE indices
             withPresent ==
                 IF qf[i + 1].present
                 THEN [withGraphics EXCEPT !.presentFamily = Some(i)]
                 ELSE withGraphics
         IN  IF isComplete(withPresent) THEN withPresent
             ELSE scanQueueFamilies(qf, i + 1, withPresent)

\* A scan without the early exit once both roles are assigned.
RECURSIVE scanQueueFamiliesNoBreak(_, _, _)
scanQueueFamiliesNoBreak(qf, i, indices) ==
    IF i >= Len(qf) THEN indices
    ELSE LET withGraphics ==
                 IF qf[i + 1].graphics
                 THEN [indices EXCEPT !.graphicsFamily = Some(i)]
                 ELSE indices
             withPresent ==
                 IF qf[i + 1].present
                 THEN [withGraphics EXCEPT !.presentFamily = Some(i)]
                 ELSE withGraphics
         IN  scanQueueFamiliesNoBreak(qf, i + 1, withPresent)

findQueueFamilies_NoBreak(dev) ==
    scanQueueFamiliesNoBreak(dev.queueFamilies, 0, EmptyIndices)

findQueueFamilies(dev) == scanQueueFamilies(dev.queueFamilies, 0, EmptyIndices)

(***************************************************************************)
(* checkDeviceExtensionSupport                                             *)
(***************************************************************************)
RECURSIVE eraseAll(_, _, _)
eraseAll(required, available, k) ==
    IF k > Len(available) THEN required
    ELSE eraseAll(required \ {available[k]}, available, k + 1)

checkDeviceExtensionSupport(dev) ==
    eraseAll(Range(deviceExtensions), dev.extensions, 1) = {}

(***************************************************************************)
(* querySwapChainSupport                                                   *)
(***************************************************************************)
querySwapChainSupport(dev) ==
    [capabilities |-> dev.capabilities,
     formats      |-> IF Len(dev.formats) # 0 THEN dev.formats ELSE <<>>,
     presentModes |-> IF Len(dev.presentModes) # 0 THEN dev.presentModes ELSE <<>>]

(***************************************************************************)
(* isDeviceSuitable                                                        *)
(***************************************************************************)
isDeviceSuitable_IgnoresQueues(dev) ==
    LET extensionsSupported == checkDeviceExtensionSupport(dev)
        swapChainSupport == querySwapChainSupport(dev)
    IN  extensionsSupported /\ swapChainSupport.formats # <<>>
                            /\ swapChainSupport.presentModes # <<>>

isDeviceSuitable(dev) ==
    LET indices == findQueueFamilies(dev)
        extensionsSupported == checkDeviceExtensionSupport(dev)
        swapChainSupport == querySwapChainSupport(dev)
        swapChainAdequate ==
            IF extensionsSupported
            THEN swapChainSupport.formats # <<>> /\ swapChainSupport.presentModes # <<>>
            ELSE FALSE
    IN  isComplete(indices) /\ extensionsSupported /\ swapChainAdequate

(***************************************************************************)
(* chooseSwapSurfaceFormat (availableFormats non-empty; availableFormats[0]*)
(* of an empty vector is undefined and is handled where it is called).     *)
(***************************************************************************)
PreferredFormat ==
    [format |-> "VK_FORMAT_B8G8R8A8_SRGB",
     colorSpace |-> "VK_COLOR_SPACE_SRGB_NONLINEAR_KHR"]

RECURSIVE scanFormats(_, _)
scanFormats(availableFormats, k) ==
    IF k > Len(availableFormats) THEN availableFormats[1]
    ELSE IF /\ availableFormats[k].format = "VK_FORMAT_B8G8R8A8_SRGB"
            /\ availableFormats[k].colorSpace = "VK_COLOR_SPACE_SRGB_NONLINEAR_KHR"
         THEN availableFormats[k]
         ELSE scanFormats(availableFormats, k + 1)

chooseSwapSurfaceFormat_FormatOnly(availableFormats) ==
    IF \E k \in 1..Len(availableFormats) :
           availableFormats[k].format = "VK_FORMAT_B8G8R8A8_SRGB"
    THEN LET k == CHOOSE j \in 1..Len(availableFormats) :
                      /\ availableFormats[j].format = "VK_FORMAT_B8G8R8A8_SRGB"
                      /\ \A h \in 1..(j - 1) :
                             availableFormats[h].format # "VK_FORMAT_B8G8R8A8_SRGB"
         IN  availableFormats[k]
    ELSE availableFormats[1]

chooseSwapSurfaceFormat(availableFormats) == scanFormats(availableFormats, 1)

(***************************************************************************)
(* chooseSwapPresentMode                                                   *)
(***************************************************************************)
RECURSIVE scanPresentModes(_, _)
scanPresentModes(availablePresentModes, k) ==
    IF k > Len(availablePresentModes) THEN "VK_PRESENT_MODE_FIFO_KHR"
    ELSE IF availablePresentModes[k] = "VK_PRESENT_MODE_MAILBOX_KHR"
         THEN availablePresentModes[k]
         ELSE scanPresentModes(availablePresentModes, k + 1)

chooseSwapPresentMode_FirstOnly(availablePresentModes) ==
    IF /\ Len(availablePresentModes) > 0
       /\ availablePresentModes[1] = "VK_PRESENT_MODE_MAILBOX_KHR"
    THEN availablePresentModes[1]
    ELSE "VK_PRESENT_MODE_FIFO_KHR"

\* The preferred mode is requested without looking at the list.
chooseSwapPresentMode_AlwaysMailbox(availablePresentModes) ==
    "VK_PRESENT_MODE_MAILBOX_KHR"

chooseSwapPresentMode(availablePresentModes) ==
    scanPresentModes(availablePresentModes, 1)

(***************************************************************************)
(* chooseSwapExtent: fb is what glfwGetFramebufferSize stores into         *)
(* (width, height).                                                        *)
(***************************************************************************)
\* std::clamp(v, lo, hi), lo <= hi
clamp(v, lo, hi) == IF v < lo THEN lo ELSE IF hi < v THEN hi ELSE v

chooseSwapExtent_NoLowerClamp(capabilities, fb) ==
    IF capabilities.currentExtent.width # UINT_MAX
    THEN capabilities.currentExtent
    ELSE LET w == static_cast_uint32(fb.width)
             h == static_cast_uint32(fb.height)
         IN  [width  |-> IF capabilities.maxImageExtent.width < w
                         THEN capabilities.maxImageExtent.width ELSE w,
              height |-> IF capabilities.maxImageExtent.height < h
                         THEN capabilities.maxImageExtent.height ELSE h]

chooseSwapExtent(capabilities, fb) ==
    IF capabilities.currentExtent.width # UINT_MAX
    THEN capabilities.currentExtent
    ELSE LET actualExtent == [width  |-> static_cast_uint32(fb.width),
                              height |-> static_cast_uint32(fb.height)]
         IN  [width  |-> clamp(actualExtent.width,
                               capabilities.minImageExtent.width,
                               capabilities.maxImageExtent.width),
              height |-> clamp(actualExtent.height,
                               capabilities.minImageExtent.height,
                               capabilities.maxImageExtent.height)]

(***************************************************************************)
(* createLogicalDevice: the request passed to vkCreateDevice and the two   *)
(* vkGetDeviceQueue retrievals. indices is complete.                       *)
(***************************************************************************)
\* iteration order of std::set<uint32_t>
RECURSIVE ascending(_)
ascending(S) ==
    IF S = {} THEN <<>>
    ELSE LET m == CHOOSE x \in S : \A y \in S : x <= y
         IN  <<m>> \o ascending(S \ {m})

queueCreateInfoFor(queueFamily) ==
    [queueFamilyIndex |-> queueFamily, queueCount |-> 1, queuePriority |-> 1]

queueCreateInfos_PerRole(indices) ==
    <<queueCreateInfoFor(value(indices.graphicsFamily)),
      queueCreateInfoFor(value(indices.presentFamily))>>

queueCreateInfos(indices) ==
    LET uniqueQueueFamilies ==
            {value(indices.graphicsFamily), value(indices.presentFamily)}
        order == ascending(uniqueQueueFamilies)
    IN  [k \in 1..Len(order) |-> queueCreateInfoFor(order[k])]

deviceCreateInfo(indices, layersEnabled) ==
    [queueCreateInfos      |-> queueCreateInfos(indices),
     enabledExtensionNames |-> deviceExtensions,
     enabledLayerNames     |-> IF layersEnabled THEN validationLayers ELSE <<>>]

\* vkGetDeviceQueue(device, queueFamilyIndex, queueIndex): the handle is
\* determined by the (family, index) pair.
vkGetDeviceQueue(queueFamilyIndex, queueIndex) ==
    [queueFamilyIndex |-> queueFamilyIndex, queueIndex |-> queueIndex]

(***************************************************************************)
(* createSwapChain: the request passed to vkCreateSwapchainKHR.            *)
(***************************************************************************)
requestedImageCount_NoCap(capabilities) ==
    (capabilities.minImageCount + 1) % (UINT_MAX + 1)

requestedImageCount(capabilities) ==
    LET imageCount == (capabilities.minImageCount + 1) % (UINT_MAX + 1)
    IN  IF capabilities.maxImageCount > 0 /\ imageCount > capabilities.maxImageCount
        THEN capabilities.maxImageCount
        ELSE imageCount

sharingOf_AlwaysExclusive(indices) ==
    [imageSharingMode      |-> "VK_SHARING_MODE_EXCLUSIVE",
     queueFamilyIndexCount |-> 0,
     pQueueFamilyIndices   |-> <<>>]

sharingOf(indices) ==
    LET queueFamilyIndices ==
            <<value(indices.graphicsFamily), value(indices.presentFamily)>>
    IN  IF indices.graphicsFamily # indices.presentFamily
        THEN [imageSharingMode      |-> "VK_SHARING_MODE_CONCURRENT",
              queueFamilyIndexCount |-> 2,
              pQueueFamilyIndices   |-> queueFamilyIndices]
        ELSE [imageSharingMode      |-> "VK_SHARING_MODE_EXCLUSIVE",
              queueFamilyIndexCount |-> 0,
              pQueueFamilyIndices   |-> <<>>]

swapchainCreateInfo(swapChainSupport, surfaceFormat, indices, fb) ==
    LET presentMode == chooseSwapPresentMode(swapChainSupport.presentModes)
        extent == chooseSwapExtent(swapChainSupport.capabilities, fb)
        sharing == sharingOf(indices)
    IN  [minImageCount         |-> requestedImageCount(swapChainSupport.capabilities),
         imageFormat           |-> surfaceFormat.format,
         imageColorSpace       |-> surfaceFormat.colorSpace,
         imageExtent           |-> extent,
         imageArrayLayers      |-> 1,
         imageUsage            |-> "VK_IMAGE_USAGE_COLOR_ATTACHMENT_BIT",
         imageSharingMode      |-> sharing.imageSharingMode,
         queueFamilyIndexCount |-> sharing.queueFamilyIndexCount,
         pQueueFamilyIndices   |-> sharing.pQueueFamilyIndices,
         preTransform          |-> swapChainSupport.capabilities.currentTransform,
         compositeAlpha        |-> "VK_COMPOSITE_ALPHA_OPAQUE_BIT_KHR",
         presentMode           |-> presentMode,
         clipped               |-> TRUE,
         oldSwapchain          |-> "VK_NULL_HANDLE"]

(***************************************************************************)
(* What the driver can report.                                             *)
(***************************************************************************)
QueueFamilyProps == [graphics : BOOLEAN, present : BOOLEAN]
FamilyLists == SeqsUpTo(QueueFamilyProps, MaxFamilies)

ExtensionNames == {"VK_KHR_swapchain", "VK_KHR_maintenance1"}
ExtensionLists == SeqsUpTo(ExtensionNames, MaxExtensions)

SurfaceFormats ==
    [format     : {"VK_FORMAT_B8G8R8A8_SRGB", "VK_FORMAT_B8G8R8A8_UNORM"},
     colorSpace : {"VK_COLOR_SPACE_SRGB_NONLINEAR_KHR",
                   "VK_COLOR_SPACE_DISPLAY_P3_NONLINEAR_EXT"}]
FormatLists == SeqsUpTo(SurfaceFormats, MaxFormats)

PresentModes == {"VK_PRESENT_MODE_IMMEDIATE_KHR", "VK_PRESENT_MODE_MAILBOX_KHR",
                 "VK_PRESENT_MODE_FIFO_KHR"}
PresentModeLists == SeqsUpTo(PresentModes, MaxPresentModes)

Extent(w, h) == [width |-> w, height |-> h]

\* currentExtent is either a real size or the special value
\* (0xFFFFFFFF, 0xFFFFFFFF) in both fields.
SentinelExtent == Extent(UINT_MAX, UINT_MAX)

Capabilities(minCount, maxCount, current, minExtent, maxExtent) ==
    [minImageCount    |-> minCount,
     maxImageCount    |-> maxCount,
     currentExtent    |-> current,
     minImageExtent   |-> minExtent,
     maxImageExtent   |-> maxExtent,
     currentTransform |-> "VK_SURFACE_TRANSFORM_IDENTITY_BIT_KHR"]

\* Surface capabilities whose extents vary (image counts fixed).
ExtentCapabilities ==
    {Capabilities(2, 0, cur, Extent(lo[1], lo[2]), Extent(hi[1], hi[2])) :
        cur \in {SentinelExtent, Extent(WIDTH, HEIGHT), Extent(32, 8192)},
        lo \in {<<1, 1>>, <<64, 64>>, <<64, 480>>},
        hi \in {<<4096, 4096>>, <<640, 480>>}}

FramebufferSizes ==
    {Extent(w, h) : w \in {0, 50, WIDTH, 10000}, h \in {0, 50, HEIGHT, 10000}}

\* Surface capabilities whose image counts vary (extents fixed).
CountCapabilities ==
    {Capabilities(lo, hi, Extent(WIDTH, HEIGHT), Extent(1, 1), Extent(4096, 4096)) :
        lo \in 1..MaxImageCount, hi \in 0..(MaxImageCount + 1)}

Device(families, exts, fmts, modes, caps) ==
    [queueFamilies |-> families,
     extensions    |-> exts,
     formats       |-> fmts,
     presentModes  |-> modes,
     capabilities  |-> caps]

GP == [graphics |-> TRUE, present |-> TRUE]
GraphicsOnly == [graphics |-> TRUE, present |-> FALSE]
PresentOnly == [graphics |-> FALSE, present |-> TRUE]
UnormP3 ==
    [format |-> "VK_FORMAT_B8G8R8A8_UNORM",
     colorSpace |-> "VK_COLOR_SPACE_DISPLAY_P3_NONLINEAR_EXT"]
UnormSrgb ==
    [format |-> "VK_FORMAT_B8G8R8A8_UNORM",
     colorSpace |-> "VK_COLOR_SPACE_SRGB_NONLINEAR_KHR"]

FixedCaps == Capabilities(2, 0, Extent(WIDTH, HEIGHT), Extent(1, 1), Extent(4096, 4096))
AnySizeCaps == Capabilities(2, 2, SentinelExtent, Extent(64, 64), Extent(4096, 4096))
SmallCaps == Capabilities(1, 3, Extent(640, 480), Extent(640, 480), Extent(640, 480))

\* The physical devices the bootstrap is run against: three devices that
\* qualify, and one device for every way of not qualifying.
DeviceProfiles ==
    {Device(<<GP>>, <<"VK_KHR_swapchain">>, <<UnormSrgb, PreferredFormat>>,
            <<"VK_PRESENT_MODE_FIFO_KHR", "VK_PRESENT_MODE_MAILBOX_KHR">>, FixedCaps),
     Device(<<GraphicsOnly, PresentOnly>>,
            <<"VK_KHR_maintenance1", "VK_KHR_swapchain">>, <<UnormP3>>,
            <<"VK_PRESENT_MODE_FIFO_KHR">>, AnySizeCaps),
     Device(<<GraphicsOnly, GP>>, <<"VK_KHR_swapchain">>, <<PreferredFormat>>,
            <<"VK_PRESENT_MODE_IMMEDIATE_KHR", "VK_PRESENT_MODE_FIFO_KHR">>, SmallCaps),
     Device(<<GraphicsOnly>>, <<"VK_KHR_swapchain">>, <<UnormSrgb, PreferredFormat>>,
            <<"VK_PRESENT_MODE_FIFO_KHR", "VK_PRESENT_MODE_MAILBOX_KHR">>, FixedCaps),
     Device(<<PresentOnly>>, <<"VK_KHR_swapchain">>, <<UnormSrgb, PreferredFormat>>,
            <<"VK_PRESENT_MODE_FIFO_KHR", "VK_PRESENT_MODE_MAILBOX_KHR">>, FixedCaps),
     Device(<<>>, <<"VK_KHR_swapchain">>, <<UnormSrgb, PreferredFormat>>,
            <<"VK_PRESENT_MODE_FIFO_KHR", "VK_PRESENT_MODE_MAILBOX_KHR">>, FixedCaps),
     Device(<<GP>>, <<"VK_KHR_maintenance1">>, <<UnormSrgb, PreferredFormat>>,
            <<"VK_PRESENT_MODE_FIFO_KHR", "VK_PRESENT_MODE_MAILBOX_KHR">>, FixedCaps),
     Device(<<GP>>, <<"VK_KHR_swapchain">>, <<>>,
            <<"VK_PRESENT_MODE_FIFO_KHR", "VK_PRESENT_MODE_MAILBOX_KHR">>, FixedCaps),
     Device(<<GP>>, <<"VK_KHR_swapchain">>, <<UnormSrgb, PreferredFormat>>,
            <<>>, FixedCaps)}

DeviceLists == SeqsUpTo(DeviceProfiles, MaxDevices)

(***************************************************************************)
(* State of the program.                                                   *)
(***************************************************************************)
VARIABLES
    pc,                     \* the function run() / initVulkan() / main() is about to call
    devices,                \* what vkEnumeratePhysicalDevices reports, in driver order
    framebufferSize,        \* what glfwGetFramebufferSize reports
    enableValidationLayers, \* the build's flag (NDEBUG)
    windowShouldClose,
    physicalDevice,         \* 0 is VK_NULL_HANDLE, k > 0 is devices[k]
    device,                 \* <<>> until created, then <<the VkDeviceCreateInfo>>
    graphicsQueue,
    presentQueue,
    swapChain,              \* <<>> until created, then <<the VkSwapchainCreateInfoKHR>>
    swapChainImages,
    swapChainImageFormat,
    swapChainExtent,
    swapChainImageViews,    \* per slot: 0 is VK_NULL_HANDLE, i > 0 the view of image i
    created,                \* the resources created so far, in order
    destroyed,              \* the resources destroyed so far, in order
    calls,                  \* the probes and driver calls made so far, in order
    exitStatus,             \* "running", "EXIT_SUCCESS" or "EXIT_FAILURE"
    what,                   \* e.what() printed by main's handler
    call,                   \* a function applied on its own: [fn, in]
    ret                     \* its result: <<>> until it returns, then <<result>>

vars == <<pc, devices, framebufferSize, enableValidationLayers, windowShouldClose,
          physicalDevice, device, graphicsQueue, presentQueue, swapChain,
          swapChainImages, swapChainImageFormat, swapChainExtent,
          swapChainImageViews, created, destroyed, calls, exitStatus, what,
          call, ret>>

appVars == <<pc, devices, framebufferSize, enableValidationLayers, windowShouldClose,
             physicalDevice, device, graphicsQueue, presentQueue, swapChain,
             swapChainImages, swapChainImageFormat, swapChainExtent,
             swapChainImageViews, created, destroyed, calls, exitStatus, what>>

Resource(kind, id) == [kind |-> kind, id |-> id]
Call(fn, on, by) == [fn |-> fn, on |-> on, by |-> by]

NoCall == [fn |-> "none", in |-> <<>>]

AppInit ==
    /\ pc = "initWindow"
    /\ windowShouldClose = FALSE
    /\ physicalDevice = 0
    /\ device = <<>>
    /\ graphicsQueue = <<>>
    /\ presentQueue = <<>>
    /\ swapChain = <<>>
    /\ swapChainImages = <<>>
    /\ swapChainImageFormat = <<>>
    /\ swapChainExtent = <<>>
    /\ swapChainImageViews = <<>>
    /\ created = <<>>
    /\ destroyed = <<>>
    /\ calls = <<>>
    /\ exitStatus = "running"
    /\ what = ""

Init ==
    /\ devices \in DeviceLists
    /\ framebufferSize \in {Extent(WIDTH, HEIGHT), Extent(10000, 50)}
    /\ enableValidationLayers \in BOOLEAN
    /\ AppInit
    /\ call = NoCall
    /\ ret = <<>>

(***************************************************************************)
(* A throw unwinds run() to main's handler, which prints e.what() and      *)
(* returns EXIT_FAILURE; nothing is destroyed on the way.                  *)
(***************************************************************************)
\* The exception is swallowed inside run(): the event loop is entered.
Throw_Swallowed(message) ==
    /\ pc' = "mainLoop"
    /\ exitStatus' = exitStatus
    /\ what' = message

Throw(message) ==
    /\ pc' = "done"
    /\ exitStatus' = "EXIT_FAILURE"
    /\ what' = message

Goto(next) ==
    /\ pc' = next
    /\ UNCHANGED <<exitStatus, what>>

initWindow ==
    /\ pc = "initWindow"
    /\ created' = Append(created, Resource("window", 0))
    /\ calls' = calls \o <<Call("glfwInit", 0, "initWindow"),
                           Call("glfwCreateWindow", 0, "initWindow")>>
    /\ Goto("createInstance")
    /\ UNCHANGED <<devices, framebufferSize, enableValidationLayers,
                   windowShouldClose, physicalDevice, device, graphicsQueue,
                   presentQueue, swapChain, swapChainImages, swapChainImageFormat,
                   swapChainExtent, swapChainImageViews, destroyed, call, ret>>

createInstance ==
    /\ pc = "createInstance"
    /\ \E layersAvailable \in BOOLEAN, result \in {"VK_SUCCESS", "VK_ERROR"} :
          IF enableValidationLayers /\ ~layersAvailable
          THEN /\ Throw("validation layers requested, but not available!")
               /\ calls' = Append(calls, Call("vkEnumerateInstanceLayerProperties",
                                              0, "checkValidationLayerSupport"))
               /\ UNCHANGED created
          ELSE LET made == calls
                       \o (IF enableValidationLayers
                           THEN <<Call("vkEnumerateInstanceLayerProperties",
                                       0, "checkValidationLayerSupport")>>
                           ELSE <<>>)
                       \o <<Call("vkCreateInstance", 0, "createInstance")>>
               IN  /\ calls' = made
                   /\ IF result = "VK_SUCCESS"
                      THEN /\ created' = Append(created, Resource("instance", 0))
                           /\ Goto("setupDebugMessenger")
                      ELSE /\ Throw("failed to create instance!")
                           /\ UNCHANGED created
    /\ UNCHANGED <<devices, framebufferSize, enableValidationLayers,
                   windowShouldClose, physicalDevice, device, graphicsQueue,
                   presentQueue, swapChain, swapChainImages, swapChainImageFormat,
                   swapChainExtent, swapChainImageViews, destroyed, call, ret>>

setupDebugMessenger ==
    /\ pc = "setupDebugMessenger"
    /\ IF ~enableValidationLayers
       THEN /\ Goto("createSurface")
            /\ UNCHANGED <<created, calls>>
       ELSE \E result \in {"VK_SUCCESS", "VK_ERROR_EXTENSION_NOT_PRESENT"} :
               /\ calls' = Append(calls, Call("vkCreateDebugUtilsMessengerEXT",
                                              0, "setupDebugMessenger"))
               /\ IF result = "VK_SUCCESS"
                  THEN /\ created' = Append(created, Resource("debugMessenger", 0))
                       /\ Goto("createSurface")
                  ELSE /\ Throw("failed to set up debug messenger!")
                       /\ UNCHANGED created
    /\ UNCHANGED <<devices, framebufferSize, enableValidationLayers,
                   windowShouldClose, physicalDevice, device, graphicsQueue,
                   presentQueue, swapChain, swapChainImages, swapChainImageFormat,
                   swapChainExtent, swapChainImageViews, destroyed, call, ret>>

createSurface ==
    /\ pc = "createSurface"
    /\ \E result \in {"VK_SUCCESS", "VK_ERROR"} :
          /\ calls' = Append(calls, Call("glfwCreateWindowSurface", 0, "createSurface"))
          /\ IF result = "VK_SUCCESS"
             THEN /\ created' = Append(created, Resource("surface", 0))
                  /\ Goto("pickPhysicalDevice")
             ELSE /\ Throw("failed to create window surface!")
                  /\ UNCHANGED created
    /\ UNCHANGED <<devices, framebufferSize, enableValidationLayers,
                   windowShouldClose, physicalDevice, device, graphicsQueue,
                   presentQueue, swapChain, swapChainImages, swapChainImageFormat,
                   swapChainExtent, swapChainImageViews, destroyed, call, ret>>

(***************************************************************************)
(* pickPhysicalDevice                                                      *)
(***************************************************************************)
\* The swapchain support is queried whether or not the extension is there.
suitabilityProbes_AlwaysQuery(devs, k) ==
    <<Call("findQueueFamilies", k, "isDeviceSuitable"),
      Call("checkDeviceExtensionSupport", k, "isDeviceSuitable"),
      Call("querySwapChainSupport", k, "isDeviceSuitable")>>

\* The probes isDeviceSuitable makes on devices[k].
suitabilityProbes(devs, k) ==
    <<Call("findQueueFamilies", k, "isDeviceSuitable"),
      Call("checkDeviceExtensionSupport", k, "isDeviceSuitable")>>
    \o (IF checkDeviceExtensionSupport(devs[k])
        THEN <<Call("querySwapChainSupport", k, "isDeviceSuitable")>>
        ELSE <<>>)

RECURSIVE probesOfDevices(_, _, _)
probesOfDevices(devs, k, last) ==
    IF k > last THEN <<>>
    ELSE suitabilityProbes(devs, k) \o probesOfDevices(devs, k + 1, last)

\* The loop over the enumerated devices: the handle left in physicalDevice.
RECURSIVE scanDevices(_, _)
scanDevices(devs, k) ==
    IF k > Len(devs) THEN 0
    ELSE IF isDeviceSuitable(devs[k]) THEN k
         ELSE scanDevices(devs, k + 1)

\* The loop without its break: the last suitable device wins.
RECURSIVE scanDevicesNoBreak(_, _, _)
scanDevicesNoBreak(devs, k, found) ==
    IF k > Len(devs) THEN found
    ELSE scanDevicesNoBreak(devs, k + 1,
                            IF isDeviceSuitable(devs[k]) THEN k ELSE found)

pickedDevice_NoBreak(devs) == scanDevicesNoBreak(devs, 1, 0)

\* No check of the handle after the loop: some device is always taken.
pickedDevice_NoCheck(devs) ==
    IF scanDevices(devs, 1) = 0 /\ Len(devs) > 0 THEN 1 ELSE scanDevices(devs, 1)

pickedDevice(devs) == scanDevices(devs, 1)

pickPhysicalDevice ==
    /\ pc = "pickPhysicalDevice"
    /\ LET deviceCount == Len(devices)
           picked == pickedDevice(devices)
           examined == IF picked = 0 THEN deviceCount ELSE picked
       IN  IF deviceCount = 0
           THEN /\ calls' = Append(calls, Call("vkEnumeratePhysicalDevices", 0,
                                               "pickPhysicalDevice"))
                /\ Throw("failed to find GPUs with Vulkan support!")
                /\ UNCHANGED physicalDevice
           ELSE /\ calls' = calls
                       \o <<Call("vkEnumeratePhysicalDevices", 0, "pickPhysicalDevice"),
                            Call("vkEnumeratePhysicalDevices", 0, "pickPhysicalDevice")>>
                       \o probesOfDevices(devices, 1, examined)
                /\ physicalDevice' = picked
                /\ IF picked = 0
                   THEN Throw("failed to find a suitable GPU!")
                   ELSE Goto("createLogicalDevice")
    /\ UNCHANGED <<devices, framebufferSize, enableValidationLayers,
                   windowShouldClose, device, graphicsQueue, presentQueue,
                   swapChain, swapChainImages, swapChainImageFormat,
                   swapChainExtent, swapChainImageViews, created, destroyed,
                   call, ret>>

(***************************************************************************)
(* createLogicalDevice                                                     *)
(***************************************************************************)
\* What createLogicalDevice asks of the driver for a device whose indices
\* are complete: the create info and the two queue retrievals.
logicalDeviceRequest(dev, layersEnabled) ==
    LET indices == findQueueFamilies(dev)
    IN  [createInfo    |-> deviceCreateInfo(indices, layersEnabled),
         graphicsQueue |-> vkGetDeviceQueue(value(indices.graphicsFamily), 0),
         presentQueue  |-> vkGetDeviceQueue(value(indices.presentFamily), 0)]

createLogicalDevice ==
    /\ pc = "createLogicalDevice"
    /\ LET dev == devices[physicalDevice]
           indices == findQueueFamilies(dev)
           probed == Append(calls, Call("findQueueFamilies", physicalDevice,
                                        "createLogicalDevice"))
       IN  IF ~isComplete(indices)
           THEN \* std::optional::value() throws std::bad_optional_access
                /\ calls' = probed
                /\ Throw("bad optional access")
                /\ UNCHANGED <<device, graphicsQueue, presentQueue, created>>
           ELSE \E result \in {"VK_SUCCESS", "VK_ERROR"} :
                   LET request == logicalDeviceRequest(dev, enableValidationLayers)
                   IN  IF result = "VK_SUCCESS"
                       THEN /\ device' = <<request.createInfo>>
                            /\ graphicsQueue' = <<request.graphicsQueue>>
                            /\ presentQueue' = <<request.presentQueue>>
                            /\ created' = Append(created, Resource("device", 0))
                            /\ calls' = probed
                                   \o <<Call("vkCreateDevice", physicalDevice,
                                             "createLogicalDevice"),
                                        Call("vkGetDeviceQueue", physicalDevice,
                                             "createLogicalDevice"),
                                        Call("vkGetDeviceQueue", physicalDevice,
                                             "createLogicalDevice")>>
                            /\ Goto("createSwapChain")
                       ELSE /\ calls' = Append(probed,
                                               Call("vkCreateDevice", physicalDevice,
                                                    "createLogicalDevice"))
                            /\ Throw("failed to create logical device!")
                            /\ UNCHANGED <<device, graphicsQueue, presentQueue, created>>
    /\ UNCHANGED <<devices, framebufferSize, enableValidationLayers,
                   windowShouldClose, physicalDevice, swapChain, swapChainImages,
                   swapChainImageFormat, swapChainExtent, swapChainImageViews,
                   destroyed, call, ret>>

(***************************************************************************)
(* createSwapChain                                                         *)
(***************************************************************************)
\* The VkSwapchainCreateInfoKHR createSwapChain builds for a device whose
\* format list is non-empty and whose indices are complete.
swapChainRequest(dev, fb) ==
    LET swapChainSupport == querySwapChainSupport(dev)
    IN  swapchainCreateInfo(swapChainSupport,
                            chooseSwapSurfaceFormat(swapChainSupport.formats),
                            findQueueFamilies(dev), fb)

createSwapChain ==
    /\ pc = "createSwapChain"
    /\ LET dev == devices[physicalDevice]
           swapChainSupport == querySwapChainSupport(dev)
           indices == findQueueFamilies(dev)
           probed == calls
               \o <<Call("querySwapChainSupport", physicalDevice, "createSwapChain")>>
               \o (IF swapChainSupport.capabilities.currentExtent.width = UINT_MAX
                   THEN <<Call("glfwGetFramebufferSize", 0, "chooseSwapExtent")>>
                   ELSE <<>>)
               \o <<Call("findQueueFamilies", physicalDevice, "createSwapChain")>>
       IN  IF ~isComplete(indices)
           THEN \* std::optional::value() throws std::bad_optional_access
                /\ calls' = probed
                /\ Throw("bad optional access")
                /\ UNCHANGED <<swapChain, swapChainImages, swapChainImageFormat,
                               swapChainExtent, created>>
           ELSE \E result \in {"VK_SUCCESS", "VK_ERROR"},
                   \* availableFormats[0] of an empty vector is undefined
                   surfaceFormat \in
                       (IF swapChainSupport.formats = <<>>
                        THEN SurfaceFormats
                        ELSE {chooseSwapSurfaceFormat(swapChainSupport.formats)}) :
                   LET createInfo == swapchainCreateInfo(swapChainSupport, surfaceFormat,
                                                         indices, framebufferSize)
                   IN  IF result = "VK_SUCCESS"
                       THEN \* the driver may allocate more images than requested
                            \E imageCount \in createInfo.minImageCount
                                              ..(createInfo.minImageCount + 1) :
                               /\ swapChain' = <<createInfo>>
                               /\ swapChainImages' = [i \in 1..imageCount |-> i]
                               /\ swapChainImageFormat' = <<surfaceFormat.format>>
                               /\ swapChainExtent' = <<createInfo.imageExtent>>
                               /\ created' = Append(created, Resource("swapChain", 0))
                               /\ calls' = probed
                                      \o <<Call("vkCreateSwapchainKHR", physicalDevice,
                                                "createSwapChain"),
                                           Call("vkGetSwapchainImagesKHR", physicalDevice,
                                                "createSwapChain"),
                                           Call("vkGetSwapchainImagesKHR", physicalDevice,
                                                "createSwapChain")>>
                               /\ Goto("createImageViews")
                       ELSE /\ calls' = Append(probed,
                                               Call("vkCreateSwapchainKHR", physicalDevice,
                                                    "createSwapChain"))
                            /\ Throw("failed to create swap chain!")
                            /\ UNCHANGED <<swapChain, swapChainImages,
                                           swapChainImageFormat, swapChainExtent, created>>
    /\ UNCHANGED <<devices, framebufferSize, enableValidationLayers,
                   windowShouldClose, physicalDevice, device, graphicsQueue,
                   presentQueue, swapChainImageViews, destroyed, call, ret>>

(***************************************************************************)
(* createImageViews: the driver rejects the view of image failAt, or none  *)
(* (failAt beyond the last image).                                         *)
(***************************************************************************)
\* The loop goes on after the rejected view instead of throwing at once.
viewSlots_ContinueAfterFailure(images, failAt) ==
    [i \in 1..Len(images) |-> IF i = failAt THEN 0 ELSE images[i]]

\* swapChainImageViews when the loop ends: resized to the image count, the
\* views before failAt created, the other slots left VK_NULL_HANDLE.
viewSlots(images, failAt) ==
    [i \in 1..Len(images) |-> IF i < failAt THEN images[i] ELSE 0]

createImageViews ==
    /\ pc = "createImageViews"
    /\ LET n == Len(swapChainImages)
       IN  \E failAt \in 1..(n + 1) :
              LET attempted == IF failAt <= n THEN failAt ELSE n
              IN  /\ swapChainImageViews' = viewSlots(swapChainImages, failAt)
                  /\ created' = created
                         \o [i \in 1..(failAt - 1) |-> Resource("imageView", i)]
                  /\ calls' = calls
                         \o [i \in 1..attempted |->
                                Call("vkCreateImageView", i, "createImageViews")]
                  /\ IF failAt <= n
                     THEN Throw("failed to create image views!")
                     ELSE Goto("mainLoop")
    /\ UNCHANGED <<devices, framebufferSize, enableValidationLayers,
                   windowShouldClose, physicalDevice, device, graphicsQueue,
                   presentQueue, swapChain, swapChainImages, swapChainImageFormat,
                   swapChainExtent, destroyed, call, ret>>

(***************************************************************************)
(* mainLoop: one evaluation of the loop condition; glfwPollEvents may      *)
(* deliver the request to close the window. Polls are not recorded in      *)
(* calls.                                                                  *)
(***************************************************************************)
mainLoop ==
    /\ pc = "mainLoop"
    /\ IF ~windowShouldClose
       THEN /\ \E closeRequested \in BOOLEAN : windowShouldClose' = closeRequested
            /\ UNCHANGED <<pc, exitStatus, what>>
       ELSE /\ Goto("cleanup")
            /\ UNCHANGED windowShouldClose
    /\ UNCHANGED <<devices, framebufferSize, enableValidationLayers,
                   physicalDevice, device, graphicsQueue, presentQueue, swapChain,
                   swapChainImages, swapChainImageFormat, swapChainExtent,
                   swapChainImageViews, created, destroyed, calls, call, ret>>

(***************************************************************************)
(* cleanup, followed by main's return EXIT_SUCCESS                         *)
(***************************************************************************)
\* The logical device is destroyed before the swapchain made from it.
teardownOrder_DeviceFirst(viewSlots_, layersEnabled) ==
    [i \in 1..Len(viewSlots_) |-> Resource("imageView", viewSlots_[i])]
    \o <<Resource("device", 0), Resource("swapChain", 0)>>
    \o (IF layersEnabled THEN <<Resource("debugMessenger", 0)>> ELSE <<>>)
    \o <<Resource("surface", 0), Resource("instance", 0), Resource("window", 0)>>

\* What cleanup destroys, in the order it destroys it.
teardownOrder(viewSlots_, layersEnabled) ==
    [i \in 1..Len(viewSlots_) |-> Resource("imageView", viewSlots_[i])]
    \o <<Resource("swapChain", 0), Resource("device", 0)>>
    \o (IF layersEnabled THEN <<Resource("debugMessenger", 0)>> ELSE <<>>)
    \o <<Resource("surface", 0), Resource("instance", 0), Resource("window", 0)>>

cleanup ==
    /\ pc = "cleanup"
    /\ LET views == [i \in 1..Len(swapChainImageViews) |->
                        Resource("imageView", swapChainImageViews[i])]
       IN  /\ destroyed' = destroyed
                  \o teardownOrder(swapChainImageViews, enableValidationLayers)
           /\ calls' = calls
                  \o [i \in 1..Len(views) |-> Call("vkDestroyImageView", i, "cleanup")]
                  \o <<Call("vkDestroySwapchainKHR", 0, "cleanup"),
                       Call("vkDestroyDevice", 0, "cleanup")>>
                  \o (IF enableValidationLayers
                      THEN <<Call("vkDestroyDebugUtilsMessengerEXT", 0, "cleanup")>>
                      ELSE <<>>)
                  \o <<Call("vkDestroySurfaceKHR", 0, "cleanup"),
                       Call("vkDestroyInstance", 0, "cleanup"),
                       Call("glfwDestroyWindow", 0, "cleanup"),
                       Call("glfwTerminate", 0, "cleanup")>>
    /\ pc' = "done"
    /\ exitStatus' = "EXIT_SUCCESS"
    /\ UNCHANGED <<devices, framebufferSize, enableValidationLayers,
                   windowShouldClose, physicalDevice, device, graphicsQueue,
                   presentQueue, swapChain, swapChainImages, swapChainImageFormat,
                   swapChainExtent, swapChainImageViews, created, what, call, ret>>

Next ==
    \/ initWindow
    \/ createInstance
    \/ setupDebugMessenger
    \/ createSurface
    \/ pickPhysicalDevice
    \/ createLogicalDevice
    \/ createSwapChain
    \/ createImageViews
    \/ mainLoop
    \/ cleanup

Spec == Init /\ [][Next]_vars

(***************************************************************************)
(* The functions applied on their own, to every input within the bounds.   *)
(***************************************************************************)
HasRole(families, role) == \E k \in 1..Len(families) : families[k][role]

CompleteFamilyLists ==
    {q \in FamilyLists : HasRole(q, "graphics") /\ HasRole(q, "present")}

\* The present mode lists of a driver that reports FIFO, the one mode every
\* device is required to support.
ConformantModeLists ==
    {m \in PresentModeLists : "VK_PRESENT_MODE_FIFO_KHR" \in Range(m)}

FunctionCalls(fn) ==
    CASE fn = "findQueueFamilies" ->
           {Device(q, <<"VK_KHR_swapchain">>, <<PreferredFormat>>,
                   <<"VK_PRESENT_MODE_FIFO_KHR">>, FixedCaps) : q \in FamilyLists}
      [] fn = "isDeviceSuitable" ->
           {Device(q, e, f, m, FixedCaps) :
               q \in FamilyLists, e \in ExtensionLists,
               f \in {<<>>, <<UnormP3>>}, m \in {<<>>, <<"VK_PRESENT_MODE_FIFO_KHR">>}}
      [] fn = "chooseSwapSurfaceFormat" -> FormatLists \ {<<>>}
      [] fn = "chooseSwapPresentMode" -> PresentModeLists
      [] fn = "chooseSwapExtent" ->
           [capabilities : ExtentCapabilities, framebuffer : FramebufferSizes]
      [] fn = "createSwapChain" ->
           {Device(q, <<"VK_KHR_swapchain">>, <<PreferredFormat>>,
                   <<"VK_PRESENT_MODE_FIFO_KHR">>, c) :
               q \in CompleteFamilyLists, c \in CountCapabilities}
           \cup
           {Device(<<GP>>, <<"VK_KHR_swapchain">>, f, m, FixedCaps) :
               f \in FormatLists \ {<<>>}, m \in ConformantModeLists}
      [] fn = "createLogicalDevice" ->
           {Device(q, <<"VK_KHR_swapchain">>, <<PreferredFormat>>,
                   <<"VK_PRESENT_MODE_FIFO_KHR">>, FixedCaps) :
               q \in CompleteFamilyLists}

Functions ==
    {"findQueueFamilies", "isDeviceSuitable", "chooseSwapSurfaceFormat",
     "chooseSwapPresentMode", "chooseSwapExtent", "createSwapChain",
     "createLogicalDevice"}

FunctionInit ==
    /\ \E fn \in Functions : \E in \in FunctionCalls(fn) : call = [fn |-> fn, in |-> in]
    /\ ret = <<>>
    /\ devices = <<>>
    /\ framebufferSize = Extent(WIDTH, HEIGHT)
    /\ enableValidationLayers \in BOOLEAN
    /\ AppInit

Apply(fn, result) ==
    /\ call.fn = fn
    /\ ret = <<>>
    /\ ret' = <<result>>
    /\ UNCHANGED <<call, appVars>>

Apply_findQueueFamilies ==
    Apply("findQueueFamilies", findQueueFamilies(call.in))

Apply_isDeviceSuitable ==
    Apply("isDeviceSuitable", isDeviceSuitable(call.in))

Apply_chooseSwapSurfaceFormat ==
    Apply("chooseSwapSurfaceFormat", chooseSwapSurfaceFormat(call.in))

Apply_chooseSwapPresentMode ==
    Apply("chooseSwapPresentMode", chooseSwapPresentMode(call.in))

Apply_chooseSwapExtent ==
    Apply("chooseSwapExtent",
          chooseSwapExtent(call.in.capabilities, call.in.framebuffer))

Apply_createSwapChain ==
    Apply("createSwapChain", swapChainRequest(call.in, framebufferSize))

Apply_createLogicalDevice ==
    Apply("createLogicalDevice", logicalDeviceRequest(call.in, enableValidationLayers))

FunctionNext ==
    \/ Apply_findQueueFamilies
    \/ Apply_isDeviceSuitable
    \/ Apply_chooseSwapSurfaceFormat
    \/ Apply_chooseSwapPresentMode
    \/ Apply_chooseSwapExtent
    \/ Apply_createSwapChain
    \/ Apply_createLogicalDevice

FunctionSpec == FunctionInit /\ [][FunctionNext]_vars

(***************************************************************************)
(* Properties.                                                             *)
(***************************************************************************)
Returned(fn) == call.fn = fn /\ ret # <<>>
Result == ret[1]

\* pickPhysicalDevice has run (to its return or to its throw).
PickRan == \E k \in 1..Len(calls) : calls[k].by = "pickPhysicalDevice"

SuitableDevices == {k \in 1..Len(devices) : isDeviceSuitable(devices[k])}

\* C1: once pickPhysicalDevice has run, the selected device is the first
\* device, in driver order, that passes isDeviceSuitable: it passes, no
\* earlier device passes, and nothing is selected when no device passes.
C1_FirstSuitableSelected ==
    PickRan =>
        IF SuitableDevices = {}
        THEN physicalDevice = 0
        ELSE /\ physicalDevice \in SuitableDevices
             /\ \A k \in SuitableDevices : physicalDevice <= k

\* C1 witness: two devices, the first without a present-capable family, the
\* second qualifying, and the second selected.
C1_Witness ==
    /\ PickRan
    /\ Len(devices) = 2
    /\ ~HasRole(devices[1].queueFamilies, "present")
    /\ isDeviceSuitable(devices[2])
    /\ physicalDevice = 2

\* C2: isDeviceSuitable returns true iff the device has a graphics-capable
\* and a present-capable family, the required extensions minus the reported
\* ones is empty, and the format and present-mode lists are both non-empty.
C2_SuitableIffAllThree ==
    Returned("isDeviceSuitable") =>
        LET dev == call.in
        IN  Result <=>
               /\ HasRole(dev.queueFamilies, "graphics")
               /\ HasRole(dev.queueFamilies, "present")
               /\ Range(deviceExtensions) \ Range(dev.extensions) = {}
               /\ dev.formats # <<>>
               /\ dev.presentModes # <<>>

\* C2 witness: a device with extension, formats and present modes but no
\* present-capable family is rejected.
C2_Witness ==
    /\ Returned("isDeviceSuitable")
    /\ HasRole(call.in.queueFamilies, "graphics")
    /\ ~HasRole(call.in.queueFamilies, "present")
    /\ "VK_KHR_swapchain" \in Range(call.in.extensions)
    /\ call.in.formats # <<>>
    /\ call.in.presentModes # <<>>
    /\ Result = FALSE

\* C3: when no device is enumerated or none passes isDeviceSuitable, the run
\* ends in failure at pickPhysicalDevice and nothing happens afterwards: no
\* logical device, queue, swapchain, image or image view, no call made by a
\* later stage, nothing destroyed.
C3_NoSuitableDeviceAborts ==
    (PickRan /\ SuitableDevices = {}) =>
        /\ pc = "done"
        /\ exitStatus = "EXIT_FAILURE"
        /\ what = IF Len(devices) = 0
                  THEN "failed to find GPUs with Vulkan support!"
                  ELSE "failed to find a suitable GPU!"
        /\ physicalDevice = 0
        /\ device = <<>> /\ graphicsQueue = <<>> /\ presentQueue = <<>>
        /\ swapChain = <<>> /\ swapChainImages = <<>> /\ swapChainImageViews = <<>>
        /\ destroyed = <<>>
        /\ \A k \in 1..Len(calls) :
               calls[k].by \notin {"createLogicalDevice", "createSwapChain",
                                   "chooseSwapExtent", "createImageViews", "cleanup"}
        /\ calls[Len(calls)].by \in {"pickPhysicalDevice", "isDeviceSuitable"}

\* C3 witness: devices were enumerated, none passed, and the run has ended.
C3_Witness ==
    /\ PickRan
    /\ Len(devices) > 0
    /\ SuitableDevices = {}
    /\ pc = "done"
    /\ what = "failed to find a suitable GPU!"

LowestWith(families, role) ==
    IF HasRole(families, role)
    THEN Some((CHOOSE k \in 1..Len(families) :
                  /\ families[k][role]
                  /\ \A j \in 1..(k - 1) : ~families[j][role]) - 1)
    ELSE nullopt

\* C4 as claimed: findQueueFamilies records, for each role, the lowest family
\* index that qualifies for it.
C4_FirstMatchWins ==
    Returned("findQueueFamilies") =>
        /\ Result.graphicsFamily = LowestWith(call.in.queueFamilies, "graphics")
        /\ Result.presentFamily = LowestWith(call.in.queueFamilies, "present")

\* The 0-based index at which the scan stops: the first index by which both
\* roles have been seen, or the last index of the list.
StopIndex(families) ==
    IF HasRole(families, "graphics") /\ HasRole(families, "present")
    THEN (CHOOSE k \in 1..Len(families) :
             /\ HasRole(SubSeq(families, 1, k), "graphics")
             /\ HasRole(SubSeq(families, 1, k), "present")
             /\ ~(/\ HasRole(SubSeq(families, 1, k - 1), "graphics")
                  /\ HasRole(SubSeq(families, 1, k - 1), "present"))) - 1
    ELSE Len(families) - 1

HighestWithUpTo(families, role, stop) ==
    LET hits == {k \in 0..stop : families[k + 1][role]}
    IN  IF hits = {} THEN nullopt
        ELSE Some(CHOOSE k \in hits : \A j \in hits : j <= k)

\* C4 amended: the scan stops at the first index by which both roles have
\* been seen, and each role records the highest qualifying index up to that
\* stop (a later qualifying family replaces an earlier hit until then).
C4_LastMatchUpToStop ==
    Returned("findQueueFamilies") =>
        LET families == call.in.queueFamilies
            stop == StopIndex(families)
        IN  /\ Result.graphicsFamily = HighestWithUpTo(families, "graphics", stop)
            /\ Result.presentFamily = HighestWithUpTo(families, "present", stop)

\* C4 witness: family 0 graphics-only, family 1 graphics and present: the
\* graphics hit at 0 is replaced by 1.
C4_Witness ==
    /\ Returned("findQueueFamilies")
    /\ call.in.queueFamilies = <<GraphicsOnly, GP>>
    /\ Result.graphicsFamily = Some(1)
    /\ Result.presentFamily = Some(1)

\* C5: chooseSwapSurfaceFormat returns (B8G8R8A8 sRGB, non-linear sRGB) when
\* the list holds it at any position, and the first entry otherwise.
C5_PreferredFormatOrFirst ==
    Returned("chooseSwapSurfaceFormat") =>
        IF PreferredFormat \in Range(call.in)
        THEN Result = PreferredFormat
        ELSE Result = call.in[1]

\* C5 witness: the preferred entry is in the list but not first, and is returned.
C5_Witness ==
    /\ Returned("chooseSwapSurfaceFormat")
    /\ call.in[1] # PreferredFormat
    /\ call.in[Len(call.in)] = PreferredFormat
    /\ Result = PreferredFormat

\* C6: chooseSwapPresentMode returns MAILBOX when the list holds it and FIFO
\* otherwise.
C6_MailboxOrFifo ==
    Returned("chooseSwapPresentMode") =>
        Result = IF "VK_PRESENT_MODE_MAILBOX_KHR" \in Range(call.in)
                 THEN "VK_PRESENT_MODE_MAILBOX_KHR"
                 ELSE "VK_PRESENT_MODE_FIFO_KHR"

\* C6 witness: MAILBOX after FIFO in the list, and MAILBOX is returned.
C6_Witness ==
    /\ Returned("chooseSwapPresentMode")
    /\ call.in = <<"VK_PRESENT_MODE_FIFO_KHR", "VK_PRESENT_MODE_MAILBOX_KHR">>
    /\ Result = "VK_PRESENT_MODE_MAILBOX_KHR"

ClampedInto(v, lo, hi, r) ==
    /\ lo <= r /\ r <= hi
    /\ (lo <= v /\ v <= hi) => r = v
    /\ v < lo => r = lo
    /\ v > hi => r = hi

\* C7: chooseSwapExtent returns the current extent unchanged unless it is the
\* any-size sentinel; for the sentinel it returns the framebuffer size with
\* each axis clamped into [minImageExtent, maxImageExtent].
C7_ExtentCurrentOrClamped ==
    Returned("chooseSwapExtent") =>
        LET caps == call.in.capabilities
            fb == call.in.framebuffer
        IN  IF caps.currentExtent # SentinelExtent
            THEN Result = caps.currentExtent
            ELSE /\ ClampedInto(fb.width, caps.minImageExtent.width,
                                caps.maxImageExtent.width, Result.width)
                 /\ ClampedInto(fb.height, caps.minImageExtent.height,
                                caps.maxImageExtent.height, Result.height)

\* C7 witness: sentinel, min (64,64), max (4096,4096), framebuffer
\* (10000,50) gives (4096,64).
C7_Witness ==
    /\ Returned("chooseSwapExtent")
    /\ call.in.capabilities.currentExtent = SentinelExtent
    /\ call.in.capabilities.minImageExtent = Extent(64, 64)
    /\ call.in.capabilities.maxImageExtent = Extent(4096, 4096)
    /\ call.in.framebuffer = Extent(10000, 50)
    /\ Result = Extent(4096, 64)

\* C8: the image count requested is minImageCount + 1, reduced to
\* maxImageCount only when maxImageCount is nonzero and smaller.
C8_ImageCountClamped ==
    Returned("createSwapChain") =>
        LET caps == call.in.capabilities
        IN  Result.minImageCount =
               IF caps.maxImageCount # 0 /\ caps.minImageCount + 1 > caps.maxImageCount
               THEN caps.maxImageCount
               ELSE caps.minImageCount + 1

\* C8 witness: minImageCount 2 and maxImageCount 2 request 2 images.
C8_Witness ==
    /\ Returned("createSwapChain")
    /\ call.in.capabilities.minImageCount = 2
    /\ call.in.capabilities.maxImageCount = 2
    /\ Result.minImageCount = 2

\* C9: the swapchain is requested exclusive when the graphics and present
\* families coincide, and concurrent over exactly (graphicsFamily,
\* presentFamily) when they differ.
C9_SharingMode ==
    Returned("createSwapChain") =>
        LET indices == findQueueFamilies(call.in)
            g == value(indices.graphicsFamily)
            p == value(indices.presentFamily)
        IN  IF g = p
            THEN Result.imageSharingMode = "VK_SHARING_MODE_EXCLUSIVE"
            ELSE /\ Result.imageSharingMode = "VK_SHARING_MODE_CONCURRENT"
                 /\ Result.queueFamilyIndexCount = 2
                 /\ Result.pQueueFamilyIndices = <<g, p>>

\* C9 witness: graphics family 0, present family 1, concurrent over <<0, 1>>.
C9_Witness ==
    /\ Returned("createSwapChain")
    /\ call.in.queueFamilies = <<GraphicsOnly, PresentOnly>>
    /\ Result.imageSharingMode = "VK_SHARING_MODE_CONCURRENT"
    /\ Result.pQueueFamilyIndices = <<0, 1>>

\* C10: createLogicalDevice requests one queue at priority 1.0 for each
\* distinct family among {graphicsFamily, presentFamily}, never two for the
\* same family, and retrieves both queues at index 0 of their family, so the
\* two handles are the same queue exactly when the families coincide.
C10_OneQueuePerDistinctFamily ==
    Returned("createLogicalDevice") =>
        LET indices == findQueueFamilies(call.in)
            g == value(indices.graphicsFamily)
            p == value(indices.presentFamily)
            infos == Result.createInfo.queueCreateInfos
        IN  /\ \A k \in 1..Len(infos) :
                   infos[k].queueCount = 1 /\ infos[k].queuePriority = 1
            /\ {infos[k].queueFamilyIndex : k \in 1..Len(infos)} = {g, p}
            /\ Len(infos) = IF g = p THEN 1 ELSE 2
            /\ Result.graphicsQueue = [queueFamilyIndex |-> g, queueIndex |-> 0]
            /\ Result.presentQueue = [queueFamilyIndex |-> p, queueIndex |-> 0]
            /\ (Result.graphicsQueue = Result.presentQueue) <=> (g = p)

\* C10 witness: one family serves both roles: one queue request, one queue.
C10_Witness ==
    /\ Returned("createLogicalDevice")
    /\ call.in.queueFamilies = <<GP>>
    /\ Len(Result.createInfo.queueCreateInfos) = 1
    /\ Result.graphicsQueue = Result.presentQueue

\* The bootstrap stage a recorded call belongs to (0: before device selection).
StageOf(by) ==
    CASE by \in {"pickPhysicalDevice", "isDeviceSuitable"} -> 1
      [] by = "createLogicalDevice" -> 2
      [] by \in {"createSwapChain", "chooseSwapExtent"} -> 3
      [] by = "createImageViews" -> 4
      [] by = "cleanup" -> 5
      [] OTHER -> 0

StageRan(n) == \E k \in 1..Len(calls) : StageOf(calls[k].by) = n
CallsOf(fn) == {k \in 1..Len(calls) : calls[k].fn = fn}

\* What a failed stage leaves behind.
SelectionFailed == StageRan(1) /\ physicalDevice = 0
DeviceCreationFailed == StageRan(2) /\ device = <<>>
SwapchainCreationFailed == StageRan(3) /\ swapChain = <<>>
ImageViewCreationFailed ==
    StageRan(4) /\ \E i \in 1..Len(swapChainImageViews) : swapChainImageViews[i] = 0

FailedStage ==
    IF SelectionFailed THEN 1
    ELSE IF DeviceCreationFailed THEN 2
    ELSE IF SwapchainCreationFailed THEN 3
    ELSE IF ImageViewCreationFailed THEN 4
    ELSE 0

\* C11: the stages run in the order device selection, logical device,
\* swapchain, image views, each only after the earlier ones succeeded; once a
\* stage has failed the run is over with EXIT_FAILURE: no call of a later
\* stage, no second selection, device or swapchain request, no event loop,
\* no teardown.
C11_SequentialFailFast ==
    /\ \A j, k \in 1..Len(calls) :
           (j < k /\ StageOf(calls[j].by) > 0) =>
               StageOf(calls[j].by) <= StageOf(calls[k].by)
    /\ StageRan(2) => physicalDevice # 0
    /\ StageRan(3) => physicalDevice # 0 /\ device # <<>>
    /\ StageRan(4) => physicalDevice # 0 /\ device # <<>> /\ swapChain # <<>>
    /\ Cardinality(CallsOf("vkEnumeratePhysicalDevices")) <= 2
    /\ Cardinality(CallsOf("vkCreateDevice")) <= 1
    /\ Cardinality(CallsOf("vkCreateSwapchainKHR")) <= 1
    /\ FailedStage # 0 =>
           /\ pc = "done"
           /\ exitStatus = "EXIT_FAILURE"
           /\ windowShouldClose = FALSE
           /\ destroyed = <<>>
           /\ \A k \in 1..Len(calls) : StageOf(calls[k].by) <= FailedStage
           /\ StageOf(calls[Len(calls)].by) = FailedStage
    /\ pc \in {"mainLoop", "cleanup"} =>
           /\ FailedStage = 0
           /\ StageRan(1) /\ StageRan(2) /\ StageRan(3) /\ StageRan(4)

\* C11 witness: device selection and logical device creation succeeded, the
\* driver rejected the swapchain, and the run ended in failure.
C11_Witness ==
    /\ SwapchainCreationFailed
    /\ device # <<>>
    /\ pc = "done"
    /\ exitStatus = "EXIT_FAILURE"
    /\ what = "failed to create swap chain!"

ProbeCount(fn, on, by) ==
    Cardinality({k \in 1..Len(calls) : calls[k] = Call(fn, on, by)})

IsProbe(c) == c.fn \in {"findQueueFamilies", "querySwapChainSupport"}

\* The devices the selection loop looked at: up to the selected one, or all.
Examined ==
    IF ~PickRan THEN {}
    ELSE IF physicalDevice = 0 THEN 1..Len(devices)
    ELSE 1..physicalDevice

\* C12 as claimed: both probes are made once per examined device during
\* selection and once more on the chosen device during swapchain creation,
\* and by no one else.
C12_ProbeBySelectorAndNegotiatorOnly ==
    /\ \A k \in 1..Len(calls) :
           IsProbe(calls[k]) => calls[k].by \in {"isDeviceSuitable", "createSwapChain"}
    /\ \A d \in 1..Len(devices) : \A fn \in {"findQueueFamilies", "querySwapChainSupport"} :
           /\ ProbeCount(fn, d, "isDeviceSuitable") = IF d \in Examined THEN 1 ELSE 0
           /\ ProbeCount(fn, d, "createSwapChain") =
                  IF StageRan(3) /\ d = physicalDevice THEN 1 ELSE 0

\* C12 amended: queue family discovery is made once per examined device
\* during selection, once on the chosen device by createLogicalDevice and
\* once on it by createSwapChain; the swapchain support query is made during
\* selection once per examined device that reports the required extension,
\* and once on the chosen device by createSwapChain; there is no other probe.
C12_ProbePoints ==
    /\ \A k \in 1..Len(calls) :
           IsProbe(calls[k]) =>
               /\ calls[k].by \in {"isDeviceSuitable", "createLogicalDevice",
                                   "createSwapChain"}
               /\ calls[k].on \in 1..Len(devices)
               /\ calls[k].fn = "querySwapChainSupport" =>
                      calls[k].by # "createLogicalDevice"
    /\ \A d \in 1..Len(devices) :
           /\ ProbeCount("findQueueFamilies", d, "isDeviceSuitable") =
                  IF d \in Examined THEN 1 ELSE 0
           /\ ProbeCount("querySwapChainSupport", d, "isDeviceSuitable") =
                  IF d \in Examined /\ "VK_KHR_swapchain" \in Range(devices[d].extensions)
                  THEN 1 ELSE 0
           /\ ProbeCount("findQueueFamilies", d, "createLogicalDevice") =
                  IF StageRan(2) /\ d = physicalDevice THEN 1 ELSE 0
           /\ ProbeCount("findQueueFamilies", d, "createSwapChain") =
                  IF StageRan(3) /\ d = physicalDevice THEN 1 ELSE 0
           /\ ProbeCount("querySwapChainSupport", d, "createSwapChain") =
                  IF StageRan(3) /\ d = physicalDevice THEN 1 ELSE 0

\* C12 witness: the first device lacks the extension (its swapchain support
\* is never queried), the second is chosen and probed again by
\* createLogicalDevice and by createSwapChain.
C12_Witness ==
    /\ StageRan(3)
    /\ physicalDevice = 2
    /\ "VK_KHR_swapchain" \notin Range(devices[1].extensions)
    /\ ProbeCount("querySwapChainSupport", 1, "isDeviceSuitable") = 0
    /\ ProbeCount("findQueueFamilies", 2, "createLogicalDevice") = 1
    /\ ProbeCount("querySwapChainSupport", 2, "createSwapChain") = 1

\* The images for which vkCreateImageView was called, in call order.
RECURSIVE viewAttemptsFrom(_)
viewAttemptsFrom(k) ==
    IF k > Len(calls) THEN <<>>
    ELSE (IF calls[k].fn = "vkCreateImageView" THEN <<calls[k].on>> ELSE <<>>)
         \o viewAttemptsFrom(k + 1)

ViewAttempts == viewAttemptsFrom(1)

CreatedViews == {i \in 1..Len(swapChainImages) : Resource("imageView", i) \in Range(created)}

\* C13: createImageViews goes through the swapchain images in order, one view
\* per image; when the view of an image is rejected the failure is raised at
\* once, no later image is attempted and the views created before it are
\* never destroyed; when none is rejected there are as many views as images.
C13_ImageViewsInOrderNoRollback ==
    StageRan(4) =>
        LET n == Len(swapChainImages)
            m == Len(ViewAttempts)
            rejected == {i \in 1..Len(swapChainImageViews) : swapChainImageViews[i] = 0}
        IN  /\ Len(swapChainImageViews) = n
            /\ m <= n
            /\ \A i \in 1..m : ViewAttempts[i] = i
            /\ IF rejected = {}
               THEN /\ m = n
                    /\ \A i \in 1..n : swapChainImageViews[i] = swapChainImages[i]
                    /\ CreatedViews = 1..n
                    /\ what = ""
               ELSE /\ rejected = m..n
                    /\ \A i \in 1..(m - 1) : swapChainImageViews[i] = swapChainImages[i]
                    /\ CreatedViews = 1..(m - 1)
                    /\ destroyed = <<>>
                    /\ pc = "done"
                    /\ exitStatus = "EXIT_FAILURE"
                    /\ what = "failed to create image views!"

\* C13 witness: three images, the view of the second is rejected: one view
\* exists, the third image was never attempted, nothing was destroyed.
C13_Witness ==
    /\ StageRan(4)
    /\ Len(swapChainImages) = 3
    /\ ViewAttempts = <<1, 2>>
    /\ swapChainImageViews = <<1, 0, 0>>
    /\ CreatedViews = {1}
    /\ destroyed = <<>>
    /\ pc = "done"

C15_ReprobeCompleteAndFormatsNonEmpty ==
    /\ what # "bad optional access"
    /\ (StageRan(2) \/ StageRan(3)) =>
           LET dev == devices[physicalDevice]
               indices == findQueueFamilies(dev)
           IN  /\ physicalDevice \in 1..Len(devices)
               /\ HasRole(dev.queueFamilies, "graphics")
               /\ HasRole(dev.queueFamilies, "present")
               /\ isComplete(indices)
               /\ device # <<>> =>
                      /\ graphicsQueue =
                             <<vkGetDeviceQueue(value(indices.graphicsFamily), 0)>>
                      /\ presentQueue =
                             <<vkGetDeviceQueue(value(indices.presentFamily), 0)>>
               /\ (swapChain # <<>> /\ swapChain[1].queueFamilyIndexCount = 2) =>
                      swapChain[1].pQueueFamilyIndices =
                          <<graphicsQueue[1].queueFamilyIndex,
                            presentQueue[1].queueFamilyIndex>>
               /\ (swapChain # <<>> /\ swapChain[1].queueFamilyIndexCount = 0) =>
                      graphicsQueue = presentQueue
    /\ StageRan(3) =>
           /\ devices[physicalDevice].formats # <<>>
           /\ swapChain # <<>> =>
                  [format |-> swapChain[1].imageFormat,
                   colorSpace |-> swapChain[1].imageColorSpace]
                      \in Range(devices[physicalDevice].formats)

\* C15 witness: the first device has no present-capable family and is passed
\* over; the second is chosen, its two families differ, and both the logical
\* device and the swapchain were created from the indices probed again.
C15_Witness ==
    /\ Len(devices) = 2
    /\ ~HasRole(devices[1].queueFamilies, "present")
    /\ physicalDevice = 2
    /\ device # <<>>
    /\ swapChain # <<>>
    /\ swapChain[1].pQueueFamilyIndices = <<0, 1>>
    /\ graphicsQueue # presentQueue

DestroyedBefore(a, b) ==
    \E j, k \in 1..Len(destroyed) : j < k /\ destroyed[j] = a /\ destroyed[k] = b

\* C16: teardown runs only after all stages succeeded and the event loop
\* ended; it destroys every created resource exactly once, image views before
\* the swapchain, the swapchain before the logical device, the logical device
\* and the surface before the instance, the instance before the window; a
\* run that fails destroys nothing.
C16_TeardownOnlyAfterSuccess ==
    /\ destroyed # <<>> =>
           /\ pc = "done"
           /\ exitStatus = "EXIT_SUCCESS"
           /\ windowShouldClose
           /\ FailedStage = 0
           /\ StageRan(1) /\ StageRan(2) /\ StageRan(3) /\ StageRan(4)
           /\ \A j, k \in 1..Len(destroyed) : j # k => destroyed[j] # destroyed[k]
           /\ Range(destroyed) = Range(created)
           /\ \A i \in 1..Len(swapChainImages) :
                  DestroyedBefore(Resource("imageView", i), Resource("swapChain", 0))
           /\ DestroyedBefore(Resource("swapChain", 0), Resource("device", 0))
           /\ DestroyedBefore(Resource("device", 0), Resource("instance", 0))
           /\ DestroyedBefore(Resource("surface", 0), Resource("instance", 0))
           /\ DestroyedBefore(Resource("instance", 0), Resource("window", 0))
    /\ exitStatus = "EXIT_FAILURE" =>
           /\ destroyed = <<>>
           /\ ~StageRan(5)
    /\ exitStatus = "EXIT_SUCCESS" => destroyed # <<>>
    /\ StageRan(5) <=> destroyed # <<>>

\* C16 witness: a debug build with three swapchain images was torn down.
C16_Witness ==
    /\ destroyed # <<>>
    /\ enableValidationLayers
    /\ Len(swapChainImages) = 3
    /\ Len(destroyed) = Len(created)
    /\ exitStatus = "EXIT_SUCCESS"

====
